---------------------------- MODULE Spec2Model ----------------------------
(***************************************************************************)
(* Model of the classical-cipher cracking engine of                        *)
(* src/vigenere_bruteforce/src/vigenere_bruteforce.rs: the bounded TopN    *)
(* selector (a std BinaryHeap of Result ordered by score), the decryption  *)
(* transforms, the scorer and the brute-force orchestrator.                *)
(*                                                                         *)
(* Texts are sequences of ASCII codes.  Rust indexes from 0; sequences     *)
(* here index from 1, so At(s, i) reads the element at Rust index i.       *)
(***************************************************************************)
EXTENDS Integers, Sequences, FiniteSets, TLC

VARIABLES
    heap,       \* TopN.heap: the BinaryHeap's backing vector, root first
    limit,      \* TopN.limit
    panicked,   \* TRUE once a call has panicked (the process aborts)
    dropped,    \* history: scores insert has discarded or evicted so far
    ninserted,  \* history: number of insert calls made so far
    results,    \* the ranked list display_results printed, <<>> before
    shown,      \* TRUE once display_results has run
    other,      \* a second TopN of the same limit (order-independence runs)
    pending,    \* for heap and other: the candidates still to insert
    loop,       \* the orchestrator's position: family, outer and inner counter
    last,       \* history: the candidate the orchestrator constructed last
    text,       \* the input of a transform call
    out,        \* the output of the transform call
    op          \* the transform call that produced out: its name and parameters

vars == <<heap, limit, panicked, dropped, ninserted, results, shown, other,
          pending, loop, last, text, out, op>>

selVars == <<heap, limit, panicked, dropped, ninserted, results, shown>>
cmpVars == <<other, pending>>
runVars == <<loop, last>>
fnVars  == <<text, out, op>>

\* ------------------------------------------------------------------ bounds

MaxLimit   == 3     \* largest TopN capacity of the stand-alone selector runs
MaxScore   == 3     \* scores of the stand-alone selector runs are 0..MaxScore
MaxInserts == 5     \* insert calls per stand-alone selector run

\* --------------------------------------------------------------- helpers

At(s, i) == s[i + 1]

Swap(s, i, j) == [s EXCEPT ![i + 1] = s[j + 1], ![j + 1] = s[i + 1]]

Min(a, b) == IF a <= b THEN a ELSE b

RECURSIVE Pow(_, _)
Pow(b, e) == IF e = 0 THEN 1 ELSE b * Pow(b, e - 1)

Range(s) == {s[k] : k \in DOMAIN s}

\* ------------------------------------------------- std BinaryHeap<Result>
\* Result's Ord compares score only (lines 35-39) and is not reversed, so
\* the BinaryHeap is a max-heap on score: peek and pop give a greatest score.

\* The Result insert_lightweight builds: the preview is the first 80 bytes.
Result(score, cipher_type, params, plaintext) ==
    [score |-> score, cipher_type |-> cipher_type, params |-> params,
     plaintext_preview |-> SubSeq(plaintext, 1, Min(Len(plaintext), 80)),
     plaintext_full |-> plaintext]

ResultLe(x, y) == x.score <= y.score

\* BinaryHeap::sift_up(start, pos): move the element at pos up while it is
\* greater than its parent.
RECURSIVE SiftUp(_, _, _)
SiftUp(d, start, pos) ==
    IF pos > start
    THEN LET parent == (pos - 1) \div 2
         IN  IF ResultLe(At(d, pos), At(d, parent))
             THEN d
             ELSE SiftUp(Swap(d, pos, parent), start, parent)
    ELSE d

\* A mistaken push that appends and does not restore the heap order.
HeapPushNoSift(d, item) == Append(d, item)

\* BinaryHeap::push: append, then sift_up(0, old_len).
HeapPush(d, item) == SiftUp(Append(d, item), 0, Len(d))

\* BinaryHeap::sift_down_to_bottom: move the hole at pos down to a leaf
\* along the greater children; the result is <<vector, final position>>.
RECURSIVE SiftDownHole(_, _)
SiftDownHole(d, pos) ==
    LET end   == Len(d)
        child == 2 * pos + 1
    IN  IF end >= 2 /\ child <= end - 2
        THEN LET c == IF ResultLe(At(d, child), At(d, child + 1))
                      THEN child + 1 ELSE child
             IN  SiftDownHole(Swap(d, pos, c), c)
        ELSE IF child = end - 1
             THEN <<Swap(d, pos, child), child>>
             ELSE <<d, pos>>

\* BinaryHeap::pop: take the last element, swap it with the root, sift the
\* root down to the bottom and back up.  The old root is removed.
HeapPop(d) ==
    IF Len(d) <= 1
    THEN <<>>
    ELSE LET item == d[Len(d)]
             rest == [SubSeq(d, 1, Len(d) - 1) EXCEPT ![1] = item]
             down == SiftDownHole(rest, 0)
         IN  SiftUp(down[1], 0, down[2])

\* BinaryHeap::peek: the root.  Only read on a non-empty vector.
HeapPeek(d) == d[1]

\* --------------------------------------------------------------- TopN

\* A mistaken insert that always pushes.
InsertNoBound(h, lim, r) ==
    [heap |-> HeapPush(h, r), panicked |-> FALSE, gone |-> {}]

\* TopN::insert.  heap: the new vector; panicked: peek().unwrap() met an
\* empty heap; gone: the scores of the candidates that left or never entered.
TopNInsert(h, lim, r) ==
    IF Len(h) < lim
    THEN [heap |-> HeapPush(h, r), panicked |-> FALSE, gone |-> {}]
    ELSE IF Len(h) = 0
    THEN [heap |-> h, panicked |-> TRUE, gone |-> {}]
    ELSE IF r.score > HeapPeek(h).score
    THEN [heap |-> HeapPush(HeapPop(h), r), panicked |-> FALSE,
          gone |-> {HeapPeek(h).score}]
    ELSE [heap |-> h, panicked |-> FALSE, gone |-> {r.score}]

\* TopN::new
TopNNew(lim) == [heap |-> <<>>, limit |-> lim]

\* display_results: the ranks are the heap's iteration order, that is the
\* backing vector from the root on (top_n.heap.iter()); an empty heap
\* prints no ranks.
DisplayedRanks(h) == h

\* TopN::into_sorted_vec: the vector sorted by descending score (stable).
RECURSIVE InsertDesc(_, _)
InsertDesc(sorted, r) ==
    IF sorted = <<>> THEN <<r>>
    ELSE IF Head(sorted).score >= r.score
         THEN <<Head(sorted)>> \o InsertDesc(Tail(sorted), r)
         ELSE <<r>> \o sorted

RECURSIVE IntoSortedVec(_)
IntoSortedVec(h) ==
    IF h = <<>> THEN <<>>
    ELSE InsertDesc(IntoSortedVec(SubSeq(h, 1, Len(h) - 1)), h[Len(h)])

\* TopN::best_result
BestResult(h) == IF h = <<>> THEN <<>> ELSE <<HeapPeek(h)>>

\* ------------------------------------------------------------ characters

IsLower(c) == c \in 97..122          \* is_ascii_lowercase
IsUpper(c) == c \in 65..90           \* is_ascii_uppercase
IsAlpha(c) == IsLower(c) \/ IsUpper(c)
ToLower(c) == IF IsUpper(c) THEN c + 32 ELSE c
LetterBase(c) == IF IsLower(c) THEN 97 ELSE 65

\* str::find / position of a char: the Rust index of its first occurrence,
\* -1 when there is none.
RECURSIVE FindFrom(_, _, _)
FindFrom(t, c, i) ==
    IF i >= Len(t) THEN -1
    ELSE IF At(t, i) = c THEN i ELSE FindFrom(t, c, i + 1)

Find(t, c) == FindFrom(t, c, 0)

\* ------------------------------------------------- decryption transforms

\* A mistaken letter rule that shifts every character, letter or not.
CaesarCharNoPass(c, shift) ==
    IF IsUpper(c) THEN ((c - 65 + 26 - shift) % 26) + 65
    ELSE ((c + 26 * 4 - 97 + 26 - shift) % 26) + 97

CaesarChar(c, shift) ==
    IF IsLower(c) THEN ((c - 97 + 26 - shift) % 26) + 97
    ELSE IF IsUpper(c) THEN ((c - 65 + 26 - shift) % 26) + 65
    ELSE c

decrypt_caesar(t, shift) == [k \in DOMAIN t |-> CaesarChar(t[k], shift)]

\* The values the u8 expression c as u8 - base + 26 - shift takes, left to
\* right, before the reduction modulo 26: c - base, then + 26, then - shift.
\* A mistaken expression that subtracts the shift before adding 26.
CaesarStepsShiftFirst(c, shift) ==
    <<c - LetterBase(c), c - LetterBase(c) - shift, c - LetterBase(c) - shift + 26>>

CaesarSteps(c, shift) ==
    <<c - LetterBase(c), c - LetterBase(c) + 26, c - LetterBase(c) + 26 - shift>>

\* TRUE when decrypt_caesar leaves the range of u8 on some letter of t.
CaesarOverflows(t, shift) ==
    \E k \in DOMAIN t :
        /\ IsAlpha(t[k])
        /\ \E i \in 1..3 : CaesarSteps(t[k], shift)[i] \notin 0..255

\* decrypt_caesar of a build without overflow checks: the u8 value wraps
\* modulo 256 before the reduction modulo 26.
CaesarCharWrapping(c, shift) ==
    IF IsAlpha(c)
    THEN ((((CaesarSteps(c, shift)[3] % 256) % 26) + LetterBase(c)) % 256)
    ELSE c

decrypt_caesar_wrapping(t, shift) ==
    [k \in DOMAIN t |-> CaesarCharWrapping(t[k], shift)]

decrypt_rot13(t) == decrypt_caesar(t, 13)

AtbashChar(c) ==
    IF IsLower(c) THEN 122 - (c - 97)
    ELSE IF IsUpper(c) THEN 90 - (c - 65)
    ELSE c

decrypt_atbash(t) == [k \in DOMAIN t |-> AtbashChar(t[k])]

\* The Vigenere letter rule: the key shift subtracted modulo 26.
VigenereLetter(c, shift) == ((c - LetterBase(c) + 26 - shift) % 26) + LetterBase(c)

\* The Beaufort letter rule: the letter subtracted from the key shift.
BeaufortLetter(c, shift) == ((shift + 26 - (c - LetterBase(c))) % 26) + LetterBase(c)

\* The loop of decrypt_vigenere: k counts the alphabetic characters met so
\* far and selects the key shift.
RECURSIVE VigenereLoop(_, _, _, _)
VigenereLoop(t, key, k, acc) ==
    IF t = <<>> THEN acc
    ELSE LET c == Head(t)
         IN  IF IsAlpha(c)
             THEN VigenereLoop(Tail(t), key, k + 1,
                               Append(acc, VigenereLetter(c, At(key, k % Len(key)))))
             ELSE VigenereLoop(Tail(t), key, k, Append(acc, c))

decrypt_vigenere(t, key) == VigenereLoop(t, key, 0, <<>>)

\* A mistaken loop that advances the key index on every character.
RECURSIVE BeaufortLoopEveryChar(_, _, _, _)
BeaufortLoopEveryChar(t, key, k, acc) ==
    IF t = <<>> THEN acc
    ELSE LET c == Head(t)
         IN  IF IsAlpha(c)
             THEN BeaufortLoopEveryChar(Tail(t), key, k + 1,
                               Append(acc, BeaufortLetter(c, At(key, k % Len(key)))))
             ELSE BeaufortLoopEveryChar(Tail(t), key, k + 1, Append(acc, c))

\* The loop of decrypt_beaufort, of the same shape.
RECURSIVE BeaufortLoop(_, _, _, _)
BeaufortLoop(t, key, k, acc) ==
    IF t = <<>> THEN acc
    ELSE LET c == Head(t)
         IN  IF IsAlpha(c)
             THEN BeaufortLoop(Tail(t), key, k + 1,
                               Append(acc, BeaufortLetter(c, At(key, k % Len(key)))))
             ELSE BeaufortLoop(Tail(t), key, k, Append(acc, c))

decrypt_beaufort(t, key) == BeaufortLoop(t, key, 0, <<>>)

decrypt_atbash_vigenere(t, key) == decrypt_vigenere(decrypt_atbash(t), key)

decrypt_reverse(t) == [k \in DOMAIN t |-> t[Len(t) + 1 - k]]

\* decrypt_rail_fence, first loop: the zig-zag, as the positions of every
\* rail.  fence maps a rail 0..rails-1 to its positions in visiting order.
\* A mistaken zig-zag that starts again at rail 0 after the last rail.
RECURSIVE FenceLoopSawtooth(_, _, _, _, _, _)
FenceLoopSawtooth(n, rails, i, rail, direction, fence) ==
    IF i >= n THEN fence
    ELSE FenceLoopSawtooth(n, rails, i + 1, (rail + 1) % rails, direction,
                           [fence EXCEPT ![rail] = Append(@, i)])

RECURSIVE FenceLoop(_, _, _, _, _, _)
FenceLoop(n, rails, i, rail, direction, fence) ==
    IF i >= n THEN fence
    ELSE LET d == IF rail = 0 THEN 1
                  ELSE IF rail = rails - 1 THEN -1 ELSE direction
         IN  FenceLoop(n, rails, i + 1, rail + d, d,
                       [fence EXCEPT ![rail] = Append(@, i)])

RECURSIVE FlattenFence(_, _, _)
FlattenFence(fence, rails, r) ==
    IF r >= rails THEN <<>> ELSE fence[r] \o FlattenFence(fence, rails, r + 1)

\* Second loop of decrypt_rail_fence and of the columnar transform: the
\* result starts as '?' (63) everywhere; the k-th position of order takes
\* the k-th ciphertext character while there is one.
RECURSIVE FillLoop(_, _, _, _)
FillLoop(order, t, k, result) ==
    IF k > Len(order) THEN result
    ELSE IF k <= Len(t)
         THEN FillLoop(order, t, k + 1, [result EXCEPT ![order[k] + 1] = t[k]])
         ELSE FillLoop(order, t, k + 1, result)

FillByOrder(t, order) == FillLoop(order, t, 1, [p \in 1..Len(t) |-> 63])

\* The positions in the order the second loop of decrypt_rail_fence visits
\* them: rail by rail.
RailOrder(n, rails) ==
    FlattenFence(FenceLoop(n, rails, 0, 0, 1, [r \in 0..(rails - 1) |-> <<>>]), rails, 0)

decrypt_rail_fence(t, rails) ==
    IF rails <= 1 THEN t ELSE FillByOrder(t, RailOrder(Len(t), rails))

\* mod_inverse's loop over (a, m, x0, x1).  ok is FALSE when a / m is
\* reached with m = 0: the division panics.
RECURSIVE ModInvLoop(_, _, _, _)
ModInvLoop(a, m, x0, x1) ==
    IF a > 1
    THEN IF m = 0 THEN [ok |-> FALSE, x1 |-> x1]
         ELSE LET q == a \div m
              IN  ModInvLoop(m, a % m, x1 - q * x0, x0)
    ELSE [ok |-> TRUE, x1 |-> x1]

\* mod_inverse as a record: ok, and the value returned when ok.
ModInverseCall(a, m) ==
    IF m = 1 THEN [ok |-> TRUE, x1 |-> 0]
    ELSE LET r == ModInvLoop(a, m, 0, 1)
         IN  [ok |-> r.ok, x1 |-> IF r.x1 < 0 THEN r.x1 + m ELSE r.x1]

mod_inverse(a, m) == ModInverseCall(a, m).x1

AffineChar(c, a, b) ==
    IF IsLower(c) THEN 97 + ((mod_inverse(a, 26) * ((c - 97) + b)) % 26)
    ELSE IF IsUpper(c) THEN 65 + ((mod_inverse(a, 26) * ((c - 65) + b)) % 26)
    ELSE c

decrypt_affine(t, a, b) == [k \in DOMAIN t |-> AffineChar(t[k], a, b)]

\* key_indices.sort_by_key(..): the column indices 0..cols-1 in a stable
\* ascending order of their key characters.
RECURSIVE InsertByKey(_, _, _)
InsertByKey(sorted, key, i) ==
    IF sorted = <<>> THEN <<i>>
    ELSE IF At(key, Head(sorted)) <= At(key, i)
         THEN <<Head(sorted)>> \o InsertByKey(Tail(sorted), key, i)
         ELSE <<i>> \o sorted

RECURSIVE SortedKeyIndices(_, _)
SortedKeyIndices(key, n) ==
    IF n = 0 THEN <<>>
    ELSE InsertByKey(SortedKeyIndices(key, n - 1), key, n - 1)

\* The positions row * cols + original_pos below the text length, column
\* by column in key order.
RECURSIVE ColumnPositions(_, _, _, _)
ColumnPositions(order, rows, cols, n) ==
    IF order = <<>> THEN <<>>
    ELSE LET col  == Head(order)
             cell == [row \in 1..rows |-> (row - 1) * cols + col]
             FitsIn(pos) == pos < n
         IN  SelectSeq(cell, FitsIn) \o ColumnPositions(Tail(order), rows, cols, n)

decrypt_columnar_transposition(t, key) ==
    LET cols == Len(key)
        rows == (Len(t) + cols - 1) \div cols
    IN  FillByOrder(t, ColumnPositions(SortedKeyIndices(key, cols), rows, cols, Len(t)))

\* The Playfair key table: the key's letters (lowercase, j as i) without
\* repeats, then the letters a..z but j that the key does not hold.
RECURSIVE Dedup(_, _)
Dedup(t, acc) ==
    IF t = <<>> THEN acc
    ELSE IF IsAlpha(Head(t)) /\ Head(t) \notin Range(acc)
         THEN Dedup(Tail(t), Append(acc, Head(t)))
         ELSE Dedup(Tail(t), acc)

JToI(c) == IF ToLower(c) = 106 THEN 105 ELSE ToLower(c)

PlayfairTable(key) ==
    LET fromKey == Dedup([k \in DOMAIN key |-> JToI(key[k])], <<>>)
        NotUsed(c) == c # 106 /\ c \notin Range(fromKey)
    IN  fromKey \o SelectSeq([k \in 1..26 |-> 96 + k], NotUsed)

\* keytable.find(c).unwrap_or(0)
TablePos(table, c) == IF Find(table, c) < 0 THEN 0 ELSE Find(table, c)

PlayfairPair(table, c1, c2) ==
    LET pos1 == TablePos(table, c1)
        pos2 == TablePos(table, c2)
        row1 == pos1 \div 5
        col1 == pos1 % 5
        row2 == pos2 \div 5
        col2 == pos2 % 5
    IN  IF row1 = row2
        THEN <<At(table, row1 * 5 + ((col1 + 4) % 5)), At(table, row2 * 5 + ((col2 + 4) % 5))>>
        ELSE IF col1 = col2
        THEN <<At(table, ((row1 + 4) % 5) * 5 + col1), At(table, ((row2 + 4) % 5) * 5 + col2)>>
        ELSE <<At(table, row1 * 5 + col2), At(table, row2 * 5 + col1)>>

RECURSIVE PlayfairLoop(_, _, _)
PlayfairLoop(table, clean, i) ==
    IF i >= Len(clean) THEN <<>>
    ELSE IF i + 1 < Len(clean)
         THEN PlayfairPair(table, At(clean, i), At(clean, i + 1))
                  \o PlayfairLoop(table, clean, i + 2)
         ELSE PlayfairLoop(table, clean, i + 2)

decrypt_playfair(t, key) ==
    LET letters == SelectSeq(t, IsAlpha)
    IN  PlayfairLoop(PlayfairTable(key), [k \in DOMAIN letters |-> JToI(letters[k])], 0)

\* "abcdefghiklmnopqrstuvwxyz"
PolybiusTable == SelectSeq([k \in 1..26 |-> 96 + k], LAMBDA c : c # 106)

IsPolybiusDigit(c) == c \in 49..53   \* "12345".contains(c)

RECURSIVE PolybiusLoop(_, _)
PolybiusLoop(clean, i) ==
    IF i >= Len(clean) THEN <<>>
    ELSE IF i + 1 < Len(clean)
            /\ IsPolybiusDigit(At(clean, i)) /\ IsPolybiusDigit(At(clean, i + 1))
         THEN LET idx == (At(clean, i) - 49) * 5 + (At(clean, i + 1) - 49)
              IN  (IF idx < Len(PolybiusTable) THEN <<At(PolybiusTable, idx)>> ELSE <<>>)
                      \o PolybiusLoop(clean, i + 2)
         ELSE PolybiusLoop(clean, i + 2)

decrypt_polybius_square(t) == PolybiusLoop(SelectSeq(t, LAMBDA c : c # 32), 0)

\* bacon_map: letter n (a = 0 .. z = 25) has the five-character code that
\* writes n in binary with 'a' (97) for 0 and 'b' (98) for 1.
BaconCode(n) ==
    <<97 + ((n \div 16) % 2), 97 + ((n \div 8) % 2), 97 + ((n \div 4) % 2),
      97 + ((n \div 2) % 2), 97 + (n % 2)>>

RECURSIVE BaconLoop(_, _)
BaconLoop(clean, i) ==
    IF i >= Len(clean) THEN <<>>
    ELSE LET chunk == SubSeq(clean, i + 1, Min(i + 5, Len(clean)))
             hits  == {n \in 0..25 : BaconCode(n) = chunk}
         IN  (IF Len(chunk) = 5 /\ hits # {}
              THEN <<97 + CHOOSE n \in hits : TRUE>> ELSE <<>>)
                 \o BaconLoop(clean, i + 5)

decrypt_bacon(t) == BaconLoop(SelectSeq(t, IsAlpha), 0)

\* ---------------------------------------------------------------- scorer

CIPHERTEXT ==
    <<98,120,114,119,111,114,110,44,32,100,111,100,99,120,32,105,121,32,108,98,107,115,32,33>>

\* COMMON_WORDS, as a set (the list is only searched with contains).
COMMON_WORDS == {
    <<116,104,101>>, <<97,110,100>>, <<116,111>>, <<111,102>>, <<105,110>>, <<105,115>>,
    <<105,116>>, <<121,111,117>>, <<116,104,97,116>>, <<104,101>>, <<119,97,115>>, <<102,111,114>>,
    <<111,110>>, <<97,114,101>>, <<97,115>>, <<119,105,116,104>>, <<104,105,115>>,
    <<116,104,101,121>>, <<98,101>>, <<97,116>>, <<111,110,101>>, <<104,97,118,101>>,
    <<116,104,105,115>>, <<102,114,111,109>>, <<111,114>>, <<104,97,100>>, <<98,121>>,
    <<98,117,116>>, <<110,111,116>>, <<119,101>>, <<109,121>>, <<115,111>>, <<105,102>>,
    <<109,101>>, <<121,111,117,114>>, <<119,104,97,116>>, <<97,108,108>>, <<99,97,110>>,
    <<110,111>>, <<97,98,111,117,116>>, <<119,105,108,108>>, <<119,111,117,108,100>>,
    <<116,104,101,114,101>>, <<116,104,101,105,114>>, <<119,104,105,99,104>>, <<119,104,101,110>>,
    <<109,97,107,101>>, <<108,105,107,101>>, <<116,105,109,101>>, <<118,101,114,121>>,
    <<99,111,109,101>>, <<106,117,115,116>>, <<107,110,111,119>>, <<116,97,107,101>>,
    <<112,101,111,112,108,101>>, <<121,101,97,114>>, <<119,111,114,107>>, <<98,97,99,107>>,
    <<99,97,108,108>>, <<102,101,101,108>>, <<102,105,110,100>>, <<103,105,118,101>>,
    <<103,111,111,100>>, <<104,97,110,100>>, <<104,105,103,104>>, <<107,101,101,112>>,
    <<108,97,115,116>>, <<108,105,102,101>>, <<108,105,118,101>>, <<109,101,97,110>>,
    <<110,101,101,100>>, <<110,101,120,116>>, <<111,112,101,110>>, <<111,118,101,114>>,
    <<112,97,114,116>>, <<112,108,97,121>>, <<115,97,105,100>>, <<115,97,109,101>>,
    <<115,101,101,109>>, <<115,117,99,104>>, <<116,101,108,108>>, <<116,104,97,110>>,
    <<116,104,101,109>>, <<116,104,101,110>>, <<116,104,101,115,101>>, <<116,104,117,115>>,
    <<119,97,110,116>>, <<119,101,108,108>>, <<119,101,114,101>>, <<119,111,114,100>>,
    <<119,114,105,116,101>>, <<121,101,97,114,115>>, <<97,110,99,105,101,110,116>>,
    <<108,105,98,114,97,114,121>>, <<115,116,111,111,100>>,
    <<109,97,106,101,115,116,105,99,97,108,108,121>>, <<104,105,108,108,115,105,100,101>>,
    <<119,101,97,116,104,101,114,101,100>>, <<115,116,111,110,101>>, <<119,97,108,108,115>>,
    <<104,111,108,100,105,110,103>>, <<99,111,117,110,116,108,101,115,115>>,
    <<115,101,99,114,101,116,115>>, <<119,105,116,104,105,110>>, <<115,99,104,111,108,97,114,115>>,
    <<97,99,114,111,115,115>>, <<107,105,110,103,100,111,109>>, <<106,111,117,114,110,101,121>>,
    <<109,111,110,116,104,115>>, <<97,99,99,101,115,115>>, <<114,97,114,101>>,
    <<109,97,110,117,115,99,114,105,112,116,115>>, <<112,114,101,99,105,111,117,115>>,
    <<107,110,111,119,108,101,100,103,101>>, <<104,101,97,100>>,
    <<108,105,98,114,97,114,105,97,110>>, <<103,117,97,114,100,101,100>>,
    <<116,114,101,97,115,117,114,101,115>>, <<102,105,101,114,99,101,108,121>>,
    <<97,108,108,111,119,105,110,103>>, <<100,101,100,105,99,97,116,101,100>>,
    <<114,101,115,101,97,114,99,104,101,114,115>>, <<115,116,117,100,121>>,
    <<99,97,114,101,102,117,108,108,121>>
    }

\* FREQ = "etaoinshrdlu"
FREQ == <<101,116,97,111,105,110,115,104,114,100,108,117>>

\* text.split(non-alphabetic), lowercased, the tokens of length >= 3 kept.
RECURSIVE SplitWords(_, _)
SplitWords(t, cur) ==
    IF t = <<>> THEN <<cur>>
    ELSE IF IsAlpha(Head(t))
         THEN SplitWords(Tail(t), Append(cur, ToLower(Head(t))))
         ELSE <<cur>> \o SplitWords(Tail(t), <<>>)

LongEnough(w) == Len(w) >= 3

Words(t) == SelectSeq(SplitWords(t, <<>>), LongEnough)

InCommonWords(w) == w \in COMMON_WORDS

\* is_valid_english: the percentage of kept tokens that are common words,
\* 0 without the division when no token is kept.
\* i32 division as Rust performs it: a zero divisor panics.
I32Div(a, b) ==
    IF b = 0
    THEN [value |-> 0, divided |-> TRUE, panicked |-> TRUE]
    ELSE [value |-> a \div b, divided |-> TRUE, panicked |-> FALSE]

\* A mistaken validity that divides without looking at the token count.
ValidityCallNoGuard(words) ==
    I32Div(Len(SelectSeq(words, InCommonWords)) * 100, Len(words))

\* The body of is_valid_english after the tokens are collected: the early
\* return on words.is_empty(), else the division by words.len().
ValidityCall(words) ==
    IF words = <<>>
    THEN [value |-> 0, divided |-> FALSE, panicked |-> FALSE]
    ELSE I32Div(Len(SelectSeq(words, InCommonWords)) * 100, Len(words))

Validity(words) == ValidityCall(words).value

is_valid_english(t) == Validity(Words(t))

IsFreqLetter(c) == IsAlpha(c) /\ ToLower(c) \in Range(FREQ)

\* The word part of score_english: 10 per common word, and twice the
\* validity is_valid_english computes from the same tokens.
WordScore(words) ==
    10 * Len(SelectSeq(words, InCommonWords)) + 2 * Validity(words)

\* score_english: frequent letters + 10 per common word + 2 * validity.
score_english(t) ==
    Cardinality({k \in DOMAIN t : IsFreqLetter(t[k])}) + WordScore(Words(t))

\* ---------------------------------------- stand-alone selector runs: Spec
\* Any capacity, any sequence of scores; the candidate's params number the
\* insert calls, so that no two candidates are equal.

idleCmp == other = <<>> /\ pending = <<>>
NoCandidate == [cipher_type |-> "none", params |-> <<>>, key |-> <<>>, score |-> 0, nth |-> 0]
idleRun == loop = [choice |-> 0, fam |-> 0, outer |-> 0, inner |-> 0] /\ last = NoCandidate
NoCall  == [name |-> "none", arg |-> <<>>]
idleFn  == text = <<>> /\ out = <<>> /\ op = NoCall

Init ==
    /\ limit \in 0..MaxLimit
    /\ heap = TopNNew(limit).heap
    /\ panicked = FALSE
    /\ dropped = {}
    /\ ninserted = 0
    /\ results = <<>>
    /\ shown = FALSE
    /\ idleCmp /\ idleRun /\ idleFn

\* insert_lightweight(score, ..): builds the Result and calls insert.
Insert(score) ==
    /\ ~panicked /\ ~shown
    /\ ninserted < MaxInserts
    /\ \E r \in {TopNInsert(heap, limit, Result(score, "any", ninserted, <<>>))} :
           /\ heap' = r.heap
           /\ panicked' = r.panicked
           /\ dropped' = dropped \cup r.gone
    /\ ninserted' = ninserted + 1
    /\ UNCHANGED <<limit, results, shown, cmpVars, runVars, fnVars>>

\* display_results, once the run's inserts are made.
Display ==
    /\ ~panicked /\ ~shown
    /\ results' = DisplayedRanks(heap)
    /\ shown' = TRUE
    /\ UNCHANGED <<heap, limit, panicked, dropped, ninserted, cmpVars, runVars, fnVars>>

Next ==
    \/ \E score \in 0..MaxScore : Insert(score)
    \/ Display

Spec == Init /\ [][Next]_vars

\* ------------------------------------- order-independence runs: SpecComm
\* One collection of candidates goes into two fresh selectors of the same
\* capacity: into heap in the order listed, into other in any order.

MaxColl == 4        \* candidates per collection

RECURSIVE SeqsUpTo(_, _)
SeqsUpTo(S, n) ==
    IF n = 0 THEN {<<>>}
    ELSE LET shorter == SeqsUpTo(S, n - 1)
         IN  shorter \cup {Append(q, x) : q \in {r \in shorter : Len(r) = n - 1}, x \in S}

Candidates(scores) == [k \in DOMAIN scores |-> Result(scores[k], "any", k, <<>>)]

InitComm ==
    /\ limit \in 0..MaxLimit
    /\ heap = TopNNew(limit).heap
    /\ other = TopNNew(limit).heap
    /\ \E scores \in SeqsUpTo(0..MaxScore, MaxColl) :
          pending = [coll |-> Candidates(scores), done |-> 0,
                     left |-> DOMAIN scores]
    /\ panicked = FALSE
    /\ dropped = {} /\ ninserted = 0 /\ results = <<>> /\ shown = FALSE
    /\ idleRun /\ idleFn

\* The first selector takes the next candidate of the collection.
InsertFirst ==
    /\ ~panicked
    /\ pending.done < Len(pending.coll)
    /\ \E r \in {TopNInsert(heap, limit, pending.coll[pending.done + 1])} :
           /\ heap' = r.heap
           /\ panicked' = r.panicked
    /\ pending' = [pending EXCEPT !.done = @ + 1]
    /\ UNCHANGED <<limit, dropped, ninserted, results, shown, other, runVars, fnVars>>

\* The second selector takes any candidate it has not taken yet.
InsertSecond(k) ==
    /\ ~panicked
    /\ k \in pending.left
    /\ \E r \in {TopNInsert(other, limit, pending.coll[k])} :
           /\ other' = r.heap
           /\ panicked' = r.panicked
    /\ pending' = [pending EXCEPT !.left = @ \ {k}]
    /\ UNCHANGED <<heap, limit, dropped, ninserted, results, shown, runVars, fnVars>>

NextComm ==
    \/ InsertFirst
    \/ \E k \in 1..MaxColl : InsertSecond(k)

SpecComm == InitComm /\ [][NextComm]_vars

\* The scores a selector holds, as a descending list (a multiset).
ScoreList(h) == [k \in DOMAIN h |-> IntoSortedVec(h)[k].score]

\* C3: inserting one collection into two fresh selectors of the same
\* capacity in two different orders leaves the same multiset of scores.
C3_OrderIndependent ==
    (pending.done = Len(pending.coll) /\ pending.left = {} /\ ~panicked)
        => ScoreList(heap) = ScoreList(other)

\* ------------------------------------------- the orchestrator: SpecRun
\* main's loop body for one menu choice: TopN::new(5), then
\* crack_all_ciphers (choice 0) or crack_specific_cipher(choice), then
\* display_results.  loop.fam is the match arm being run (14: all done),
\* loop.outer and loop.inner are the arm's loop counters.

MaxKeyLen == 2      \* key lengths searched by the keyed families, at most

TopLimit == 5       \* TopN::new(5)

\* The key length caps of the three keyed arms: 1..=5, 1..=5 and 1..=4.
KeyLenCap(fam) == Min(IF fam = 13 THEN 4 ELSE 5, MaxKeyLen)

\* A mistaken list that holds 13, which shares a factor with 26.
CoprimeWith13 == <<1, 3, 5, 7, 9, 11, 13, 15, 17, 19, 21, 23, 25>>

coprime_a == <<1, 3, 5, 7, 9, 11, 15, 17, 19, 21, 23, 25>>

PlayfairKeys ==
    << <<107,101,121>>, <<115,101,99,114,101,116>>, <<99,105,112,104,101,114>>,
       <<101,110,105,103,109,97>>, <<99,114,121,112,116,111,103,114,97,112,104,121>>,
       <<108,105,98,114,97,114,121>>, <<97,110,99,105,101,110,116>>,
       <<107,110,111,119,108,101,100,103,101>> >>

\* A mistaken derivation that fills the key least-significant digit first.
RECURSIVE KeyOfOrdinalLsbFirst(_, _)
KeyOfOrdinalLsbFirst(n, len) ==
    IF len = 0 THEN <<>>
    ELSE <<n % 26>> \o KeyOfOrdinalLsbFirst(n \div 26, len - 1)

\* for j in (0..len).rev() { key[j] = n % 26; n /= 26 }
RECURSIVE KeyOfOrdinal(_, _)
KeyOfOrdinal(n, len) ==
    IF len = 0 THEN <<>>
    ELSE Append(KeyOfOrdinal(n \div 26, len - 1), n % 26)

\* key.iter().map(|&x| (b'a' + x) as char).collect()
KeyName(key) == [k \in DOMAIN key |-> 97 + key[k]]

\* The first loop position of an arm.
ArmStart(choice, fam) ==
    [choice |-> choice, fam |-> fam,
     outer |-> IF fam \in {4, 7, 13} THEN 1 ELSE 0,
     inner |-> IF fam = 5 \/ fam = 8 THEN 2 ELSE 0]

\* The arm's loops have run out.
ArmDone(l) ==
    CASE l.fam = 1 -> l.inner = 26
      [] l.fam \in {2, 3, 10, 11, 12} -> l.inner = 1
      [] l.fam \in {4, 7, 13} ->
            l.outer = KeyLenCap(l.fam) /\ l.inner = Pow(26, l.outer)
      [] l.fam = 5 -> l.inner = 16
      [] l.fam = 6 -> l.outer = Len(coprime_a)
      [] l.fam = 8 -> l.inner = 11
      [] l.fam = 9 -> l.inner = Len(PlayfairKeys)
      [] OTHER -> FALSE

InitRun ==
    /\ \E choice \in 0..13 :
          loop = ArmStart(choice, IF choice = 0 THEN 1 ELSE choice)
    /\ limit = TopLimit
    /\ heap = TopNNew(limit).heap
    /\ panicked = FALSE
    /\ dropped = {} /\ ninserted = 0 /\ results = <<>> /\ shown = FALSE
    /\ last = NoCandidate
    /\ idleCmp /\ idleFn

\* score_english(&plain), then top_n.insert_lightweight(score, ..).
Try(cipher_type, params, key, plain) ==
    \E pl \in {plain} :
    \E score \in {score_english(pl)} :
    \E r \in {TopNInsert(heap, limit, Result(score, cipher_type, params, pl))} :
        /\ heap' = r.heap
        /\ panicked' = r.panicked
        /\ dropped' = dropped \cup r.gone
        /\ ninserted' = ninserted + 1
        /\ last' = [cipher_type |-> cipher_type, params |-> params, key |-> key,
                    score |-> score,
                    nth |-> IF last.cipher_type = cipher_type /\ Len(last.key) = Len(key)
                            THEN last.nth + 1 ELSE 1]
        /\ UNCHANGED <<limit, results, shown, cmpVars, fnVars>>

Running(fam) == loop.fam = fam /\ ~ArmDone(loop) /\ ~panicked

CaesarStep ==
    /\ Running(1)
    /\ Try("Caesar", <<loop.inner>>, <<>>, decrypt_caesar(CIPHERTEXT, loop.inner))
    /\ loop' = [loop EXCEPT !.inner = @ + 1]

Rot13Step ==
    /\ Running(2)
    /\ Try("ROT13", <<>>, <<>>, decrypt_rot13(CIPHERTEXT))
    /\ loop' = [loop EXCEPT !.inner = @ + 1]

AtbashStep ==
    /\ Running(3)
    /\ Try("Atbash", <<>>, <<>>, decrypt_atbash(CIPHERTEXT))
    /\ loop' = [loop EXCEPT !.inner = @ + 1]

\* One iteration of for i in 0..total of the Vigenere arm: the key of
\* ordinal i is derived, tried and inserted.
VigenereStep ==
    /\ Running(4)
    /\ loop.inner < Pow(26, loop.outer)
    /\ \E key \in {KeyOfOrdinal(loop.inner, loop.outer)} :
          Try("Vigenere", KeyName(key), key, decrypt_vigenere(CIPHERTEXT, key))
    /\ loop' = [loop EXCEPT !.inner = @ + 1]

\* The same iteration of the Beaufort arm.
BeaufortStep ==
    /\ Running(7)
    /\ loop.inner < Pow(26, loop.outer)
    /\ \E key \in {KeyOfOrdinal(loop.inner, loop.outer)} :
          Try("Beaufort", KeyName(key), key, decrypt_beaufort(CIPHERTEXT, key))
    /\ loop' = [loop EXCEPT !.inner = @ + 1]

\* The same iteration of the Atbash + Vigenere arm.
HybridStep ==
    /\ Running(13)
    /\ loop.inner < Pow(26, loop.outer)
    /\ \E key \in {KeyOfOrdinal(loop.inner, loop.outer)} :
          Try("Hybrid", KeyName(key), key, decrypt_atbash_vigenere(CIPHERTEXT, key))
    /\ loop' = [loop EXCEPT !.inner = @ + 1]

\* The next iteration of for len in 1..=cap: total and key are set anew.
NextKeyLen ==
    /\ loop.fam \in {4, 7, 13} /\ ~panicked
    /\ loop.inner = Pow(26, loop.outer)
    /\ loop.outer < KeyLenCap(loop.fam)
    /\ loop' = [loop EXCEPT !.outer = @ + 1, !.inner = 0]
    /\ UNCHANGED <<selVars, cmpVars, fnVars, last>>

RailFenceStep ==
    /\ Running(5)
    /\ Try("Rail Fence", <<loop.inner>>, <<>>, decrypt_rail_fence(CIPHERTEXT, loop.inner))
    /\ loop' = [loop EXCEPT !.inner = @ + 1]

\* for &a in &coprime_a { for b in 0..26 { .. } }
AffineStep ==
    /\ Running(6)
    /\ \E a \in {coprime_a[loop.outer + 1]} : \E b \in {loop.inner} :
          Try("Affine", <<a, b>>, <<>>, decrypt_affine(CIPHERTEXT, a, b))
    /\ loop' = IF loop.inner = 25
               THEN [loop EXCEPT !.outer = @ + 1, !.inner = 0]
               ELSE [loop EXCEPT !.inner = @ + 1]

ColumnarStep ==
    /\ Running(8)
    /\ \E key \in {[i \in 1..loop.inner |-> 97 + (i - 1)]} :
          Try("Columnar", <<loop.inner>>, <<>>,
              decrypt_columnar_transposition(CIPHERTEXT, key))
    /\ loop' = [loop EXCEPT !.inner = @ + 1]

PlayfairStep ==
    /\ Running(9)
    /\ \E key \in {PlayfairKeys[loop.inner + 1]} :
          Try("Playfair", key, <<>>, decrypt_playfair(CIPHERTEXT, key))
    /\ loop' = [loop EXCEPT !.inner = @ + 1]

PolybiusStep ==
    /\ Running(10)
    /\ Try("Polybius", <<>>, <<>>, decrypt_polybius_square(CIPHERTEXT))
    /\ loop' = [loop EXCEPT !.inner = @ + 1]

BaconStep ==
    /\ Running(11)
    /\ Try("Bacon", <<>>, <<>>, decrypt_bacon(CIPHERTEXT))
    /\ loop' = [loop EXCEPT !.inner = @ + 1]

ReverseStep ==
    /\ Running(12)
    /\ Try("Reverse", <<>>, <<>>, decrypt_reverse(CIPHERTEXT))
    /\ loop' = [loop EXCEPT !.inner = @ + 1]

\* crack_specific_cipher returns; crack_all_ciphers goes on to the next arm.
ArmReturn ==
    /\ loop.fam \in 1..13 /\ ArmDone(loop) /\ ~panicked
    /\ loop' = IF loop.choice = 0 /\ loop.fam < 13
               THEN ArmStart(loop.choice, loop.fam + 1)
               ELSE [loop EXCEPT !.fam = 14]
    /\ UNCHANGED <<selVars, cmpVars, fnVars, last>>

\* display_results(&top_n, found_exact)
DisplayRun ==
    /\ loop.fam = 14 /\ ~shown
    /\ results' = DisplayedRanks(heap)
    /\ shown' = TRUE
    /\ UNCHANGED <<heap, limit, panicked, dropped, ninserted, cmpVars, runVars, fnVars>>

NextRun ==
    \/ CaesarStep \/ Rot13Step \/ AtbashStep \/ VigenereStep \/ RailFenceStep
    \/ AffineStep \/ BeaufortStep \/ ColumnarStep \/ PlayfairStep
    \/ PolybiusStep \/ BaconStep \/ ReverseStep \/ HybridStep
    \/ NextKeyLen \/ ArmReturn \/ DisplayRun

SpecRun == InitRun /\ [][NextRun]_vars

\* ------------------------------------------------- claims on the selector

HeldScores(h) == {h[k].score : k \in DOMAIN h}

\* C1: after any sequence of inserts the held candidates are the K
\* highest-scoring ones: every held score is >= every score that insert
\* has discarded or evicted so far.
C1_HeldAreTopK ==
    \A s \in HeldScores(heap) : \A g \in dropped : s >= g

\* C2: the selector never holds more than limit candidates; the count grows
\* by one per insert until it reaches limit and stays there.
C2_SizeBound ==
    /\ Len(heap) <= limit
    /\ Len(heap) = Min(ninserted, limit)

\* C2's case: a full selector of capacity >= 2 that has taken more inserts
\* than it can hold.
C2_Witness ==
    /\ limit >= 2 /\ Len(heap) = limit /\ ninserted > limit /\ ~panicked

\* C4: the ranked list display_results prints holds at most limit
\* candidates and is ordered by descending score.
C4_RanksDescending ==
    shown =>
        /\ Len(results) <= limit
        /\ \A k \in 1..(Len(results) - 1) :
              results[k].score >= results[k + 1].score

\* C8: insert never faults, for any capacity passed to TopN::new; on a full
\* container it evicts one candidate for the new one or changes nothing.
C8_InsertNeverFaults == ~panicked

\* C14: the best candidate is never lost.  After one or more inserts into
\* a selector of capacity >= 1, best_result returns a held candidate whose
\* score is the greatest of all scores ever inserted: of those held and of
\* those discarded or evicted.
C14_BestNeverLost ==
    (ninserted > 0 /\ limit >= 1) =>
        /\ ~panicked
        /\ Len(BestResult(heap)) = 1
        /\ BestResult(heap)[1] \in Range(heap)
        /\ \A g \in HeldScores(heap) \cup dropped : BestResult(heap)[1].score >= g

\* C14's case: a full selector that has evicted a former best for a better
\* candidate, and holds a score below one it has let go.
C14_Witness ==
    /\ limit >= 2 /\ Len(heap) = limit /\ ninserted > limit
    /\ \E g \in dropped : \E s \in HeldScores(heap) : s < g
    /\ \E g \in dropped : g > 0 /\ BestResult(heap)[1].score > g

\* ------------------------------------------- transform calls: SpecCipher
\* One call of one transform on one text.

MaxTextLen == 2     \* length of the enumerated texts

\* 'a', 'z', 'B', ' ' and ','
TextAlphabet == {97, 122, 66, 32, 44}

\* The ciphertext of the program, a Bacon text ("aabbb aabaa"), a Polybius
\* text ("23 15") and the beginnings "abc", "abcd", .. of the alphabet.
SampleTexts ==
    { CIPHERTEXT,
      <<97,97,98,98,98,32,97,97,98,97,97>>,
      <<50,51,32,49,53>>,
      <<84,111,32,98,101,44,32,111,114,32,97,32,73>>,   \* "To be, or a I"
      <<116,104,101,32,99,97,116,32,120,121,122>> }     \* "the cat xyz"
        \cup {[k \in 1..n |-> 96 + k] : n \in 3..26}

Texts == SeqsUpTo(TextAlphabet, MaxTextLen) \cup SampleTexts

SampleKeys == {<<0>>, <<1>>, <<25>>, <<3, 25>>, <<1, 0, 13>>}

\* The synthetic keys "ab", "abc", .. of the Columnar arm, and two keys
\* that are not in alphabetical order ("ba", "zebra").
ColumnarKeys ==
    {[i \in 1..cols |-> 97 + (i - 1)] : cols \in 2..10}
        \cup {<<98, 97>>, <<122, 101, 98, 114, 97>>}

\* The forward affine transform E(x) = (a * x + b) mod 26, case kept.
EncryptAffineChar(c, a, b) ==
    IF IsAlpha(c) THEN LetterBase(c) + ((a * (c - LetterBase(c)) + b) % 26) ELSE c

encrypt_affine(t, a, b) == [k \in DOMAIN t |-> EncryptAffineChar(t[k], a, b)]

\* The rail of position i in the zig-zag over rails rows, of period
\* 2 * (rails - 1).
RailOf(i, rails) ==
    LET r == i % (2 * (rails - 1))
    IN  IF r < rails THEN r ELSE 2 * (rails - 1) - r

\* Rail Fence encryption: the characters rail by rail, each rail in text
\* order.
RECURSIVE EncryptRails(_, _, _)
EncryptRails(t, rails, r) ==
    IF r >= rails THEN <<>>
    ELSE LET OnRail(i) == RailOf(i, rails) = r
             taken == SelectSeq([k \in 1..Len(t) |-> k - 1], OnRail)
         IN  [k \in DOMAIN taken |-> At(t, taken[k])] \o EncryptRails(t, rails, r + 1)

encrypt_rail_fence(t, rails) == EncryptRails(t, rails, 0)

InitCipher ==
    /\ text \in Texts
    /\ out = <<>>
    /\ op = NoCall
    /\ limit = 0 /\ heap = <<>> /\ panicked = FALSE
    /\ dropped = {} /\ ninserted = 0 /\ results = <<>> /\ shown = FALSE
    /\ idleCmp /\ idleRun

Call(name, arg, result) ==
    /\ op = NoCall
    /\ out' = result
    /\ op' = [name |-> name, arg |-> arg]
    /\ UNCHANGED <<text, selVars, cmpVars, runVars>>

CallCaesar(shift) == Call("caesar", shift, decrypt_caesar(text, shift))

CallRot13 == Call("rot13", <<>>, decrypt_rot13(text))

CallAtbash == Call("atbash", <<>>, decrypt_atbash(text))

CallVigenere(key) == Call("vigenere", key, decrypt_vigenere(text, key))

CallBeaufort(key) == Call("beaufort", key, decrypt_beaufort(text, key))

CallRailFence(rails) == Call("rail_fence", rails, decrypt_rail_fence(text, rails))

CallAffine(a, b) == Call("affine", <<a, b>>, decrypt_affine(text, a, b))

CallColumnar(key) ==
    Call("columnar", key, decrypt_columnar_transposition(text, key))

CallPlayfair(key) == Call("playfair", key, decrypt_playfair(text, key))

CallPolybius == Call("polybius", <<>>, decrypt_polybius_square(text))

CallBacon == Call("bacon", <<>>, decrypt_bacon(text))

CallReverse == Call("reverse", <<>>, decrypt_reverse(text))

CallHybrid(key) == Call("hybrid", key, decrypt_atbash_vigenere(text, key))

\* decrypt_caesar with shift, then decrypt_caesar with 26 - shift, on a text
\* of letters.  An overflow of the u8 arithmetic panics in a build with
\* overflow checks and wraps in a build without; op.arg keeps the shift and
\* whether either call overflowed.
CaesarRoundTrip(shift) ==
    /\ op = NoCall
    /\ \A k \in DOMAIN text : IsAlpha(text[k])
    /\ \E checks \in BOOLEAN :
       \E mid \in {decrypt_caesar_wrapping(text, shift)} :
       \E over \in {CaesarOverflows(text, shift) \/ CaesarOverflows(mid, 26 - shift)} :
          /\ panicked' = (over /\ checks)
          /\ out' = IF over
                    THEN (IF checks THEN <<>> ELSE decrypt_caesar_wrapping(mid, 26 - shift))
                    ELSE decrypt_caesar(decrypt_caesar(text, shift), 26 - shift)
          /\ op' = [name |-> "caesar_roundtrip",
                    arg |-> [shift |-> shift, overflow |-> over]]
    /\ UNCHANGED <<text, heap, limit, dropped, ninserted, results, shown,
                   cmpVars, runVars>>

\* decrypt_beaufort applied twice with the same key.  op.arg keeps the key
\* and the text between the two passes.
BeaufortTwice(key) ==
    \E mid \in {decrypt_beaufort(text, key)} :
        Call("beaufort_twice", [key |-> key, mid |-> mid], decrypt_beaufort(mid, key))

\* score_english on the text.  A panic in the division of is_valid_english
\* aborts the call: nothing is returned.  op.arg records what
\* is_valid_english did: whether it divided, and the value it returned.
CallScore ==
    /\ op = NoCall
    /\ \E v \in {ValidityCall(Words(text))} :
          /\ panicked' = v.panicked
          /\ out' = IF v.panicked THEN <<>> ELSE <<score_english(text)>>
          /\ op' = [name |-> "score_english",
                    arg |-> [divided |-> v.divided, dict |-> is_valid_english(text)]]
    /\ UNCHANGED <<text, heap, limit, dropped, ninserted, results, shown,
                   cmpVars, runVars>>

\* decrypt_affine on the forward affine encryption of the text.
AffineRoundTrip(a, b) ==
    Call("affine_roundtrip", <<a, b>>, decrypt_affine(encrypt_affine(text, a, b), a, b))

\* decrypt_rail_fence on the Rail Fence encryption of the text.
RailFenceRoundTrip(rails) ==
    Call("rail_roundtrip", rails, decrypt_rail_fence(encrypt_rail_fence(text, rails), rails))

NextCipher ==
    \/ \E shift \in 0..25 : CallCaesar(shift)
    \/ CallRot13
    \/ CallAtbash
    \/ \E key \in SampleKeys : CallVigenere(key)
    \/ \E key \in SampleKeys : CallBeaufort(key)
    \/ \E rails \in 2..15 : CallRailFence(rails)
    \/ \E a \in Range(coprime_a), b \in 0..25 : CallAffine(a, b)
    \/ \E key \in ColumnarKeys : CallColumnar(key)
    \/ \E k \in DOMAIN PlayfairKeys : CallPlayfair(PlayfairKeys[k])
    \/ CallPolybius
    \/ CallBacon
    \/ CallReverse
    \/ \E key \in SampleKeys : CallHybrid(key)
    \/ \E a \in Range(coprime_a), b \in 0..25 : AffineRoundTrip(a, b)
    \/ \E rails \in 2..15 : RailFenceRoundTrip(rails)
    \/ CallScore
    \/ \E key \in SampleKeys : BeaufortTwice(key)
    \/ \E shift \in 0..25 : CaesarRoundTrip(shift)

SpecCipher == InitCipher /\ [][NextCipher]_vars

\* ----------------------------------------------- claims on the transforms

\* C5: decrypt_affine with (a, b) on the forward affine encryption with
\* (a, b) returns the text, for every a coprime to 26 and b in 0..25.
C5_AffineRoundTrip ==
    op.name = "affine_roundtrip" => out = text

Substitutions == {"caesar", "rot13", "atbash", "vigenere", "beaufort", "affine", "hybrid"}
Transpositions == {"rail_fence", "columnar", "reverse"}
Fractionations == {"playfair", "polybius", "bacon"}

Count(c, t) == Cardinality({k \in DOMAIN t : t[k] = c})

NLetters(t) == Cardinality({k \in DOMAIN t : IsAlpha(t[k])})

AllLower(t) == \A k \in DOMAIN t : IsLower(t[k])

\* C6 as stated: every decryption transform returns a text as long as its
\* input that holds the input's non-alphabetic characters, none dropped or
\* altered.
C6_SameLengthPassThrough ==
    op.name \in Substitutions \cup Transpositions \cup Fractionations =>
        /\ Len(out) = Len(text)
        /\ \A c \in Range(text) \cup Range(out) :
              ~IsAlpha(c) => Count(c, out) = Count(c, text)

\* C6 as amended: the substitutions keep the length, every non-alphabetic
\* character in place and the case of every letter; the transpositions
\* return a rearrangement of the input's characters; Playfair, Polybius and
\* Bacon return lowercase letters only: Playfair two per pair of input
\* letters, Polybius at most one per pair of non-space characters, Bacon at
\* most one per five input letters.
C6_ShapeByFamily ==
    /\ op.name \in Substitutions =>
          /\ Len(out) = Len(text)
          /\ \A k \in DOMAIN text :
                IF IsAlpha(text[k])
                THEN IsLower(out[k]) = IsLower(text[k]) /\ IsUpper(out[k]) = IsUpper(text[k])
                ELSE out[k] = text[k]
    /\ op.name \in Transpositions =>
          /\ Len(out) = Len(text)
          /\ \A c \in Range(text) \cup Range(out) : Count(c, out) = Count(c, text)
    /\ op.name = "playfair" =>
          Len(out) = 2 * (NLetters(text) \div 2) /\ AllLower(out)
    /\ op.name = "polybius" =>
          Len(out) <= (Len(text) - Count(32, text)) \div 2 /\ AllLower(out)
    /\ op.name = "bacon" =>
          Len(out) <= NLetters(text) \div 5 /\ AllLower(out)

\* C6's case: Playfair has decrypted the program's ciphertext, 24
\* characters of which 18 are letters.
C6_Witness ==
    op.name = "playfair" /\ text = CIPHERTEXT /\ Len(out) = 18

\* C7: decrypt_rail_fence on the Rail Fence encryption of a text with the
\* same rail count in 2..15 returns the text, also when the text is
\* shorter than the rail count; every output position takes exactly one
\* ciphertext character and no '?' placeholder remains.
C7_RailFenceRoundTrip ==
    op.name = "rail_roundtrip" =>
        /\ out = text
        /\ LET order == RailOrder(Len(text), op.arg)
           IN  /\ Len(order) = Len(text)
               /\ Range(order) = 0..(Len(text) - 1)
        /\ 63 \notin Range(out)

\* C7's case: a text longer than the rail count that the encryption
\* rearranges has come back.
C7_Witness ==
    /\ op.name = "rail_roundtrip" /\ op.arg >= 3 /\ Len(text) > 2 * op.arg
    /\ encrypt_rail_fence(text, op.arg) # text
    /\ out = text

\* C13: Caesar round trip.  For every shift s in 0..25 (s = 0 makes the
\* second shift 26) and every text of letters only,
\* decrypt_caesar(decrypt_caesar(text, s), 26 - s) is the text, and neither
\* call leaves the range of u8 in its arithmetic.
C13_CaesarRoundTrip ==
    op.name = "caesar_roundtrip" =>
        /\ ~op.arg.overflow
        /\ ~panicked
        /\ out = text

\* C13's case: shift 0, whose second call shifts by 26, on a text that
\* holds the first and the last letter of the alphabet.
C13_Witness ==
    /\ op.name = "caesar_roundtrip" /\ out = text /\ ~panicked
    /\ op.arg.shift = 0
    /\ {97, 122} \subseteq Range(text)

\* The number of alphabetic characters of t before position k (from 1).
LettersBefore(t, k) == Cardinality({j \in 1..(k - 1) : IsAlpha(t[j])})

\* One Beaufort pass from t to u with the key: a letter becomes the letter
\* of the same case at (shift - position) mod 26, the shift chosen by the
\* number of letters before it; every other character stays.
BeaufortPass(t, u, key) ==
    /\ Len(u) = Len(t)
    /\ \A k \in DOMAIN t :
          IF IsAlpha(t[k])
          THEN LET shift == key[(LettersBefore(t, k) % Len(key)) + 1]
                   base  == IF t[k] >= 97 THEN 97 ELSE 65
               IN  /\ u[k] - base \in 0..25
                   /\ (u[k] - base + t[k] - base - shift) % 26 = 0
          ELSE u[k] = t[k]

\* C12: Beaufort is self-reciprocal.  For every non-empty key of shifts in
\* 0..25 and every text, decrypt_beaufort applied twice with the key
\* returns the text; both passes keep the letter case and advance the key
\* index on alphabetic characters only.
C12_BeaufortInvolution ==
    op.name = "beaufort_twice" =>
        /\ out = text
        /\ BeaufortPass(text, op.arg.mid, op.arg.key)
        /\ BeaufortPass(op.arg.mid, out, op.arg.key)

\* C12's case: a key of several different shifts on a text of both cases
\* with other characters between the letters, changed by the first pass.
C12_Witness ==
    /\ op.name = "beaufort_twice" /\ out = text
    /\ Len(op.arg.key) >= 2 /\ op.arg.key[1] # op.arg.key[2]
    /\ op.arg.mid # text
    /\ NLetters(text) > Len(op.arg.key)
    /\ \E i, j, k \in DOMAIN text :
          /\ i < j /\ j < k
          /\ IsUpper(text[i]) /\ ~IsAlpha(text[j]) /\ IsLower(text[k])

\* ---------------------------------------------------- claims on the scorer

RECURSIVE FreqCount(_, _)
FreqCount(t, letters) ==
    IF letters = <<>> THEN 0
    ELSE Count(Head(letters), t) + Count(Head(letters) - 32, t)
             + FreqCount(t, Tail(letters))

RECURSIVE LongestRun(_, _, _)
LongestRun(t, cur, best) ==
    IF t = <<>> THEN (IF cur > best THEN cur ELSE best)
    ELSE IF IsAlpha(Head(t)) THEN LongestRun(Tail(t), cur + 1, best)
    ELSE LongestRun(Tail(t), 0, IF cur > best THEN cur ELSE best)

\* C11: scoring never divides by zero.  On a text with no run of 3 or more
\* letters (empty, all non-alphabetic, or only 1-2 letter words)
\* is_valid_english returns 0 without dividing and score_english returns
\* just the count of frequent letters, 0 when the text has no letter; on
\* every text the call returns without a panic.
C11_NoDivisionByZero ==
    op.name = "score_english" =>
        /\ ~panicked
        /\ Len(out) = 1
        /\ LongestRun(text, 0, 0) < 3 =>
              /\ ~op.arg.divided
              /\ op.arg.dict = 0
              /\ out[1] = FreqCount(text, FREQ)
              /\ (NLetters(text) = 0 => out[1] = 0)

\* C11's case: a text with letters, among them frequent ones, and no token
\* of 3 letters, scored by its frequent letters alone.
C11_Witness ==
    /\ op.name = "score_english" /\ ~panicked
    /\ Len(text) > 2 /\ NLetters(text) > 2 /\ LongestRun(text, 0, 0) < 3
    /\ ~op.arg.divided /\ out[1] > 0

\* --------------------------------------------- claims on the orchestrator

KeyedTypes == {"Vigenere", "Beaufort", "Hybrid"}

\* The number a key spells, most significant digit first, in base 26.
RECURSIVE KeyValue(_)
KeyValue(key) ==
    IF key = <<>> THEN 0
    ELSE 26 * KeyValue(SubSeq(key, 1, Len(key) - 1)) + key[Len(key)]

\* The candidates tried by a keyed arm before it reaches length len.
RECURSIVE KeysBelow(_)
KeysBelow(len) == IF len <= 1 THEN 0 ELSE Pow(26, len - 1) + KeysBelow(len - 1)

C9_Enumerated ==
    /\ last.cipher_type \in KeyedTypes =>
          /\ Len(last.key) \in 1..(IF last.cipher_type = "Hybrid" THEN 4 ELSE 5)
          /\ \A k \in DOMAIN last.key : last.key[k] \in 0..25
          /\ last.nth \in 1..Pow(26, Len(last.key))
          /\ KeyValue(last.key) = last.nth - 1
    /\ (loop.fam \in {4, 7, 13} /\ loop.inner > 0) =>
          /\ Len(last.key) = loop.outer
          /\ last.nth = loop.inner
          /\ loop.inner <= Pow(26, loop.outer)
    /\ (loop.choice \in {4, 7, 13} /\ loop.fam = loop.choice) =>
          ninserted = KeysBelow(loop.outer) + loop.inner
    /\ (loop.choice \in {4, 7, 13} /\ loop.fam = 14) =>
          /\ loop.outer = KeyLenCap(loop.choice)
          /\ last.nth = Pow(26, loop.outer)
          /\ ninserted = KeysBelow(loop.outer + 1)

\* The places of a run in program order: arm, then outer and inner loop
\* counter, then whether the results are displayed.  The counters are
\* bounded, so a run whose place moves forward with every step ends.
Forward(l1, shown1, l2, shown2) ==
    \/ l2.fam > l1.fam
    \/ l2.fam = l1.fam /\ l2.outer > l1.outer
    \/ l2.fam = l1.fam /\ l2.outer = l1.outer /\ l2.inner > l1.inner
    \/ l2 = l1 /\ shown2 /\ ~shown1

\* A step is possible until the results are displayed.
C9_NotStuck ==
    \/ shown
    \/ loop.fam = 14
    \/ loop.fam \in 1..13 /\ ArmDone(loop)
    \/ loop.fam \in {4, 7, 13} /\ loop.outer <= KeyLenCap(loop.fam)
          /\ loop.inner <= Pow(26, loop.outer)
    \/ loop.fam \in (1..13) \ {4, 7, 13} /\ ~ArmDone(loop)

\* C9: for each key length the keyed arms visit the ordinals 0..26^L-1 once
\* each, in order, and derive the key most significant digit first: the
\* n-th candidate of a length is the key that spells n-1, its digits are in
\* 0..25, a length ends after 26^L candidates, every candidate is inserted,
\* and the search ends: every step moves the bounded loop position forward and
\* a step is possible until the results are displayed.
C9_KeyEnumeration ==
    /\ [](C9_Enumerated /\ C9_NotStuck)
    /\ [][Forward(loop, shown, loop', shown')]_vars

\* C9's case: the Hybrid search has run all its lengths, the last of them
\* with keys of two or more digits, and the results were displayed.
C9_Witness ==
    /\ loop.choice = 13 /\ loop.fam = 14 /\ shown
    /\ last.cipher_type = "Hybrid" /\ Len(last.key) >= 2
    /\ last.nth = Pow(26, Len(last.key))

RECURSIVE GCD(_, _)
GCD(x, y) == IF y = 0 THEN x ELSE GCD(y, x % y)

CoprimeTo26 == {a \in 1..25 : GCD(a, 26) = 1}

\* C10: the Affine arm calls decrypt_affine (and so mod_inverse) only with a
\* multiplier coprime to 26; the multipliers are exactly the 12 coprime
\* integers of 1..25, each paired with every b in 0..25: the n-th candidate
\* is the n-th pair (a, b), and the arm ends after 312 candidates.
C10_AffineParams ==
    /\ last.cipher_type = "Affine" =>
          LET a == last.params[1]
              b == last.params[2]
          IN  /\ a \in CoprimeTo26 /\ b \in 0..25
              /\ ModInverseCall(a, 26).ok
              /\ (mod_inverse(a, 26) * a) % 26 = 1
              /\ last.nth - 1 = 26 * Cardinality({x \in CoprimeTo26 : x < a}) + b
    /\ (loop.fam = 6 /\ ArmDone(loop)) => last.nth = 312
    /\ (loop.choice = 6 /\ loop.fam = 14) =>
          /\ last.nth = 26 * Cardinality(CoprimeTo26)
          /\ ninserted = 312

\* C10's case: the Affine search has tried its last pair, (25, 25).
C10_Witness ==
    /\ loop.choice = 6 /\ loop.fam = 14
    /\ last.cipher_type = "Affine" /\ last.params = <<25, 25>> /\ last.nth = 312

=============================================================================
